---- MODULE Spec2Model ----
(***************************************************************************)
(* githubEmail(opts): the lookup of a GitHub user's email addresses from   *)
(* the profile API, the npm registry mirror, one repository's commits and  *)
(* the public events feed.                                                 *)
(*                                                                         *)
(* One action per awaited request together with the synchronous code that  *)
(* runs on its response.  The remote services are the environment: every   *)
(* action draws the response from a set.                                   *)
(***************************************************************************)
EXTENDS Integers, Sequences, FiniteSets

VARIABLES
    opts,              \* the options object passed to githubEmail
    pc,                \* position in githubEmail
    error,             \* what the call threw, None while it has not
    requests,          \* the requests issued so far, in order
    username,          \* const username (line 15)
    userJson,          \* response of /user/:id
    github,            \* const github (line 22)
    profileJson,       \* response of /users/:username
    npm,               \* const npm (line 23)
    repository,        \* const repository (line 137)
    reposJson,         \* response of /users/:username/repos
    commitsJson,       \* response of /repos/:username/:repository/commits
    commitsEmailsMap,  \* the Map built by the reduce, in insertion order
    recentCommits,     \* const recentCommits (line 24)
    eventsText,        \* response.text() of /users/:username/events
    lastIndex,         \* emailRegExp.lastIndex
    recentActivity     \* recentActivityEmails

vars == <<opts, pc, error, requests, username, userJson, github, profileJson,
          npm, repository, reposJson, commitsJson, commitsEmailsMap,
          recentCommits, eventsText, lastIndex, recentActivity>>

-----------------------------------------------------------------------------
(* JavaScript values *)

Undefined == "<undefined>"
Null == "<null>"
None == "<none>"

\* ToBoolean of a string, undefined or null
Truthy(v) == v \notin {Undefined, Null, ""}

\* The time value of new Date(undefined): NaN
NaNTime == 0

\* a.date > b.date on Date objects: false whenever a time value is NaN
DateGT(a, b) == a # NaNTime /\ b # NaNTime /\ a > b

NoResponse == [status |-> 0]

-----------------------------------------------------------------------------
(* Bounds and input domains *)

MaxCommits == 2
MaxPieces == 5

Emails == {"a1", "a2"}
Times == {1, 2}

-----------------------------------------------------------------------------
(* JSON values of the commits payload.  Every value carries its type tag t, *)
(* so that null, a missing field and an object are told apart.              *)

Ident(n, e, d) == [t |-> "object", name |-> n, email |-> e, date |-> d]
NullIdent == [t |-> "null", name |-> Undefined, email |-> Undefined, date |-> NaNTime]
UndefIdent == [t |-> "undefined", name |-> Undefined, email |-> Undefined, date |-> NaNTime]
\* the default {} of `author = {}`, `committer = {}`
EmptyIdent == Ident(Undefined, Undefined, NaNTime)

CommitObj(a, c) == [t |-> "object", author |-> a, committer |-> c]
NullCommit == [t |-> "null", author |-> UndefIdent, committer |-> UndefIdent]
UndefCommit == [t |-> "undefined", author |-> UndefIdent, committer |-> UndefIdent]
\* the default {} of `commit = {}`
EmptyCommit == CommitObj(UndefIdent, UndefIdent)

Entry(c) == [t |-> "object", commit |-> c]
NullEntry == [t |-> "null", commit |-> UndefCommit]

ArrayBody(items) == [t |-> "array", items |-> items]
ObjectBody == [t |-> "object", items |-> <<>>]

NotFound == [status |-> 404, body |-> ObjectBody]
Ok(body) == [status |-> 200, body |-> body]

-----------------------------------------------------------------------------
(* getRecentCommitsEmails: the reduce over the commits (lines 160-193)      *)

MapHas(acc, name) == \E k \in 1..Len(acc) : acc[k].name = name

\* Map.set on an existing key: the value is replaced, the position kept
MapSet(acc, v) ==
    IF MapHas(acc, v.name)
    THEN [k \in 1..Len(acc) |-> IF acc[k].name = v.name THEN v ELSE acc[k]]
    ELSE Append(acc, v)

\* new Date(date) of lines 180 and 188
NewDate(d) == d

AddIdentityOverwriting(acc, id) ==
    IF Truthy(id.name)
    THEN MapSet(acc, [name |-> id.name, email |-> id.email, date |-> NewDate(id.date)])
    ELSE acc

\* if (name && !acc.has(name)) acc.set(name, {name, email, date: new Date(date)})
AddIdentity(acc, id) ==
    IF Truthy(id.name) /\ ~MapHas(acc, id.name)
    THEN MapSet(acc, [name |-> id.name, email |-> id.email, date |-> NewDate(id.date)])
    ELSE acc

\* Destructuring with a default: the default replaces undefined only
OrDefault(v, default) == IF v.t = "undefined" THEN default ELSE v

\* Destructuring null or undefined throws a TypeError
Destructurable(v) == v.t = "object"

\* One call of the reduce callback: the Map after it, or a throw
Callback(acc, commitJson) ==
    IF ~Destructurable(commitJson)
    THEN [threw |-> TRUE, acc |-> acc]
    ELSE LET commit == OrDefault(commitJson.commit, EmptyCommit) IN
         IF ~Destructurable(commit)
         THEN [threw |-> TRUE, acc |-> acc]
         ELSE LET author == OrDefault(commit.author, EmptyIdent)
                  committer == OrDefault(commit.committer, EmptyIdent)
              IN  IF ~Destructurable(author) \/ ~Destructurable(committer)
                  THEN [threw |-> TRUE, acc |-> acc]
                  ELSE [threw |-> FALSE,
                        acc |-> AddIdentity(AddIdentity(acc, author), committer)]

RECURSIVE ReduceFrom(_, _, _)
ReduceFrom(items, k, acc) ==
    IF k > Len(items)
    THEN [threw |-> FALSE, acc |-> acc]
    ELSE LET r == Callback(acc, items[k]) IN
         IF r.threw THEN r ELSE ReduceFrom(items, k + 1, r.acc)

Reduce(items) == ReduceFrom(items, 1, <<>>)

-----------------------------------------------------------------------------
(* getRecentCommitsEmails: the sort and the map (lines 195-204)             *)

\* (a, b) => a.date > b.date ? -1 : 1
CompareFn(a, b) == IF DateGT(a.date, b.date) THEN -1 ELSE 1

Permutations(n) == {f \in [1..n -> 1..n] : \A i, j \in 1..n : f[i] = f[j] => i = j}

\* Array.prototype.sort with CompareFn.  CompareFn never returns 0 and answers
\* 1 both ways for two equal (or invalid) dates, so it is not a consistent
\* comparator and the order is implementation-defined (ECMA-262, 23.1.3.30):
\* the engines agree only where CompareFn answers -1, which puts a before b.
SortOutcomes(values) ==
    LET n == Len(values) IN
    {[k \in 1..n |-> values[f[k]]] : f \in
        {g \in Permutations(n) :
            \A i, j \in 1..n : i < j => CompareFn(values[g[j]], values[g[i]]) # -1}}

\* .map(({ name, email }) => ({ name, email }))
StripDates(values) ==
    [k \in 1..Len(values) |-> [name |-> values[k].name, email |-> values[k].email]]


-----------------------------------------------------------------------------
(* getRecentActivityEmails: the global regexp emailRegExp of line 113 on   *)
(* the raw text (lines 113-125).  A text is a sequence of characters.       *)

Quote == "\""

\* the literal part of the pattern: quote, email, quote, colon, quote
Prefix == <<Quote, "e", "m", "a", "i", "l", Quote, ":", Quote>>

\* the positions (1-based) of the quotes that can close a match starting at
\* offset s (0-based): any quote after the literal part
Closers(text, s) == {q \in (s + Len(Prefix) + 1)..Len(text) : text[q] = Quote}

Min(S) == CHOOSE x \in S : \A y \in S : x <= y

\* the pattern matches at offset s: the literal part, then non-quotes up to the
\* first quote (it cannot run past a quote, so backtracking finds no other)
MatchesAt(text, s) ==
    /\ s + Len(Prefix) <= Len(text)
    /\ SubSeq(text, s + 1, s + Len(Prefix)) = Prefix
    /\ Closers(text, s) # {}

\* emailRegExp.exec(json) of a global regexp whose lastIndex is `from`:
\* the first match at an offset >= from and the lastIndex it leaves (the
\* offset after the match), or no match and lastIndex 0
RegExpExec(text, from) ==
    LET starts == {s \in from..Len(text) : MatchesAt(text, s)} IN
    IF starts = {}
    THEN [matched |-> FALSE, group |-> <<>>, lastIndex |-> 0]
    ELSE LET s == Min(starts)
             q == Min(Closers(text, s))
         IN  [matched |-> TRUE,
              group |-> SubSeq(text, s + Len(Prefix) + 1, q - 1),
              lastIndex |-> q]

LoopNever(index) == FALSE

\* while (emailRegExp.lastIndex !== 0)
LoopContinues(index) == index # 0


-----------------------------------------------------------------------------
(* Requests *)

\* getGitHubAPIHeaders: the Authorization header, when the token is truthy
AuthHeader(token) == IF Truthy(token) THEN token ELSE None

Request(endpoint, id, user, repo, auth, status) ==
    [endpoint |-> endpoint, id |-> id, user |-> user, repo |-> repo,
     auth |-> auth, status |-> status]

\* json.email || null
OrNull(v) == IF Truthy(v) THEN v ELSE Null

-----------------------------------------------------------------------------
(* githubEmail and getUsername (lines 12-52) *)

UsernameNever(o) == FALSE

\* 'username' in opts
HasUsername(o) == o.kind = "username"

UsernameAlwaysFound(u) == FALSE

\* if (!username) throw new Error(...)
UsernameMissing(u) == ~Truthy(u)

GetUsername(replies) ==
    /\ pc = "getUsername"
    /\ IF HasUsername(opts)
       THEN /\ username' = opts.username
            /\ UNCHANGED <<requests, userJson>>
       ELSE \E r \in replies :
            /\ requests' = Append(requests,
                   Request("user-by-id", opts.id, None, None,
                           AuthHeader(opts.token), r.status))
            /\ userJson' = r
            /\ username' = IF r.status = 404 THEN Null ELSE r.login
    /\ IF UsernameMissing(username')
       THEN pc' = "error" /\ error' = "Error"
       ELSE pc' = "getGitHubEmail" /\ error' = error
    /\ UNCHANGED <<opts, github, profileJson, npm, repository, reposJson,
                   commitsJson, commitsEmailsMap, recentCommits, eventsText,
                   lastIndex, recentActivity>>

-----------------------------------------------------------------------------
(* getGitHubEmail (lines 57-74) *)

TokenNeverMissing(o) == FALSE

\* if (!opts.token) return null
TokenMissing(o) == ~Truthy(o.token)

GetGitHubEmail(replies) ==
    /\ pc = "getGitHubEmail"
    /\ IF TokenMissing(opts)
       THEN /\ github' = Null
            /\ UNCHANGED <<requests, profileJson>>
       ELSE \E r \in replies :
            /\ requests' = Append(requests,
                   Request("user", None, username, None,
                           AuthHeader(opts.token), r.status))
            /\ profileJson' = r
            /\ github' = IF r.status = 404 THEN Null ELSE OrNull(r.email)
    /\ pc' = "getNpmEmail"
    /\ UNCHANGED <<opts, error, username, userJson, npm, repository, reposJson,
                   commitsJson, commitsEmailsMap, recentCommits, eventsText,
                   lastIndex, recentActivity>>

-----------------------------------------------------------------------------
(* getNpmEmail (lines 79-89): never authenticated *)

GetNpmEmail(replies) ==
    /\ pc = "getNpmEmail"
    /\ \E r \in replies :
        /\ requests' = Append(requests,
               Request("npm", None, username, None, None, r.status))
        /\ npm' = IF r.status = 404 THEN Null ELSE OrNull(r.email)
    /\ pc' = "getRepository"
    /\ UNCHANGED <<opts, error, username, userJson, github, profileJson,
                   repository, reposJson, commitsJson, commitsEmailsMap,
                   recentCommits, eventsText, lastIndex, recentActivity>>

-----------------------------------------------------------------------------
(* getRepository (lines 213-237) and its caller (lines 137-140) *)

Repo(name) == [t |-> "object", name |-> name]
NullRepo == [t |-> "null", name |-> Undefined]

LastEntry(items) == items[Len(items)]

\* json[0]
FirstEntry(items) == items[1]

GetRepository(replies) ==
    /\ pc = "getRepository"
    /\ IF Truthy(opts.repository)
       THEN /\ repository' = opts.repository
            /\ error' = error
            /\ UNCHANGED <<requests, reposJson>>
       ELSE \E r \in replies :
            /\ requests' = Append(requests,
                   Request("repos", None, username, None,
                           AuthHeader(opts.token), r.status))
            /\ reposJson' = r
            /\ IF r.status = 404 \/ r.body.t # "array" \/ Len(r.body.items) = 0
               THEN repository' = Null /\ error' = error
               ELSE IF FirstEntry(r.body.items).t # "object"
                    \* json[0].name of null
                    THEN repository' = repository /\ error' = "TypeError"
                    ELSE /\ repository' = FirstEntry(r.body.items).name
                         /\ error' = error
    /\ IF error' # None
       THEN pc' = "error" /\ recentCommits' = recentCommits
       ELSE IF ~Truthy(repository')
            THEN pc' = "getRecentActivityEmails" /\ recentCommits' = <<>>
            ELSE pc' = "fetchCommits" /\ recentCommits' = recentCommits
    /\ UNCHANGED <<opts, username, userJson, github, profileJson, npm,
                   commitsJson, commitsEmailsMap, eventsText, lastIndex,
                   recentActivity>>

-----------------------------------------------------------------------------
(* getRecentCommitsEmails after the repository is known (lines 142-206) *)

FetchCommits(replies) ==
    /\ pc = "fetchCommits"
    /\ \E r \in replies :
        /\ requests' = Append(requests,
               Request("commits", None, username, repository,
                       AuthHeader(opts.token), r.status))
        /\ commitsJson' = r
        /\ IF r.status = 404 \/ r.body.t # "array" \/ Len(r.body.items) = 0
           THEN /\ recentCommits' = <<>>
                /\ pc' = "getRecentActivityEmails"
                /\ UNCHANGED <<error, commitsEmailsMap>>
           ELSE LET reduced == Reduce(r.body.items) IN
                IF reduced.threw
                THEN /\ pc' = "error"
                     /\ error' = "TypeError"
                     /\ UNCHANGED <<commitsEmailsMap, recentCommits>>
                ELSE /\ commitsEmailsMap' = reduced.acc
                     /\ \E sorted \in SortOutcomes(reduced.acc) :
                            recentCommits' = StripDates(sorted)
                     /\ pc' = "getRecentActivityEmails"
                     /\ error' = error
    /\ UNCHANGED <<opts, username, userJson, github, profileJson, npm,
                   repository, reposJson, eventsText, lastIndex,
                   recentActivity>>

-----------------------------------------------------------------------------
(* getRecentActivityEmails (lines 94-128) and the return of githubEmail *)

\* the request, the 404 test and the initial exec (lines 100-118)
FetchEvents(replies) ==
    /\ pc = "getRecentActivityEmails"
    /\ \E r \in replies :
        /\ requests' = Append(requests,
               Request("events", None, username, None,
                       AuthHeader(opts.token), r.status))
        /\ IF r.status = 404
           THEN /\ pc' = "done"
                /\ UNCHANGED <<eventsText, lastIndex, recentActivity>>
           ELSE LET initialMatch == RegExpExec(r.text, 0) IN
                /\ eventsText' = r.text
                /\ lastIndex' = initialMatch.lastIndex
                /\ recentActivity' =
                       IF initialMatch.matched
                       THEN Append(recentActivity, initialMatch.group)
                       ELSE recentActivity
                /\ pc' = "scan"
    /\ UNCHANGED <<opts, error, username, userJson, github, profileJson, npm,
                   repository, reposJson, commitsJson, commitsEmailsMap,
                   recentCommits>>

\* one iteration of the while loop (lines 120-125)
ScanLoop ==
    /\ pc = "scan"
    /\ LoopContinues(lastIndex)
    /\ LET match == RegExpExec(eventsText, lastIndex) IN
        /\ lastIndex' = match.lastIndex
        /\ recentActivity' =
               IF match.matched
               THEN Append(recentActivity, match.group)
               ELSE recentActivity
    /\ UNCHANGED <<opts, pc, error, requests, username, userJson, github,
                   profileJson, npm, repository, reposJson, commitsJson,
                   commitsEmailsMap, recentCommits, eventsText>>

\* the loop ends, getRecentActivityEmails and githubEmail return
ScanExit ==
    /\ pc = "scan"
    /\ ~LoopContinues(lastIndex)
    /\ pc' = "done"
    /\ UNCHANGED <<opts, error, requests, username, userJson, github,
                   profileJson, npm, repository, reposJson, commitsJson,
                   commitsEmailsMap, recentCommits, eventsText, lastIndex,
                   recentActivity>>


-----------------------------------------------------------------------------
(* The environment: the options a caller passes and the responses served *)

UsernameOpts(u, token, repo) ==
    [kind |-> "username", username |-> u, id |-> None, token |-> token,
     repository |-> repo]
IdOpts(id, token, repo) ==
    [kind |-> "id", username |-> None, id |-> id, token |-> token,
     repository |-> repo]

Tokens == {Undefined, "", "t0"}
Repositories == {Undefined, "", "r1"}

AllOpts ==
    {UsernameOpts(u, t, r) : u \in {"", "u1"}, t \in Tokens, r \in Repositories}
    \cup {IdOpts("583231", t, r) : t \in Tokens, r \in Repositories}

\* /user/:id: not found, an account, a body without login
UserReplies ==
    {[status |-> 404, login |-> Undefined],
     [status |-> 200, login |-> "u2"],
     [status |-> 200, login |-> Undefined]}

\* /users/:username and the registry: not found, an email, an empty one, none
EmailReplies(email) ==
    {[status |-> 404, email |-> Undefined],
     [status |-> 200, email |-> email],
     [status |-> 200, email |-> ""],
     [status |-> 200, email |-> Undefined]}

ReposReplies ==
    {NotFound, Ok(ObjectBody), Ok(ArrayBody(<<>>)),
     Ok(ArrayBody(<<NullRepo>>)),
     Ok(ArrayBody(<<Repo(Undefined)>>)),
     Ok(ArrayBody(<<Repo("r2"), Repo("r3")>>))}

\* identities: A under two emails, B, one without a name, one without an email
Identities ==
    {Ident("A", e, d) : e \in Emails, d \in Times}
    \cup {Ident("B", "b1", d) : d \in Times}
    \cup {Ident(Undefined, "a1", 1), Ident("A", Undefined, 1)}

Commits == {Entry(CommitObj(a, c)) : a \in Identities, c \in Identities}

SeqsUpTo(S, n) == UNION {[1..k -> S] : k \in 0..n}

\* every array of at most n commits over Identities
CommitsReplies(n) ==
    {NotFound, Ok(ObjectBody)} \cup {Ok(ArrayBody(items)) : items \in SeqsUpTo(Commits, n)}

Jane == Ident("A", "a1", 2)
Bot == Ident("B", "a2", 2)

\* commits arrays with members that are null, missing or incomplete
MalformedCommitsReplies ==
    {NotFound, Ok(ObjectBody), Ok(ArrayBody(<<>>)),
     Ok(ArrayBody(<<NullEntry>>)),
     Ok(ArrayBody(<<Entry(UndefCommit)>>)),
     Ok(ArrayBody(<<Entry(NullCommit)>>)),
     Ok(ArrayBody(<<Entry(CommitObj(NullIdent, Jane))>>)),
     Ok(ArrayBody(<<Entry(CommitObj(Jane, NullIdent))>>)),
     Ok(ArrayBody(<<Entry(CommitObj(UndefIdent, Jane))>>)),
     Ok(ArrayBody(<<Entry(CommitObj(Jane, UndefIdent))>>)),
     Ok(ArrayBody(<<Entry(CommitObj(Ident("A", Undefined, NaNTime),
                                    Ident("", "a2", 1)))>>)),
     Ok(ArrayBody(<<Entry(CommitObj(Jane, Bot)), NullEntry>>)),
     Ok(ArrayBody(<<Entry(CommitObj(Jane, Bot)),
                    Entry(CommitObj(Ident("A", "a2", 1), Jane))>>))}

\* the pieces the event texts are made of: the literal part of the pattern,
\* a quote, and text without quotes
Pieces == {Prefix, <<Quote>>, <<"x">>, <<"e", "m", "a", "i", "l">>, <<":">>}

RECURSIVE Concat(_)
Concat(pieces) ==
    IF pieces = <<>> THEN <<>> ELSE Head(pieces) \o Concat(Tail(pieces))

\* every text of at most n pieces
EventsReplies(n) ==
    {[status |-> 404, text |-> <<>>]}
    \cup {[status |-> 200, text |-> Concat(ps)] : ps \in SeqsUpTo(Pieces, n)}

\* a feed with no email, with one and with the same one twice
FeedReplies ==
    {[status |-> 404, text |-> <<>>],
     [status |-> 200, text |-> <<"[", "]">>],
     [status |-> 200, text |-> Prefix \o <<"x", Quote>>],
     [status |-> 200, text |-> Prefix \o <<"x", Quote, ",">> \o Prefix \o <<"x", Quote>>]}

-----------------------------------------------------------------------------
(* Specifications *)

Fresh ==
    /\ error = None
    /\ requests = <<>>
    /\ userJson = NoResponse
    /\ github = Null
    /\ profileJson = NoResponse
    /\ npm = Null
    /\ repository = Undefined
    /\ reposJson = NoResponse
    /\ commitsJson = NoResponse
    /\ commitsEmailsMap = <<>>
    /\ recentCommits = <<>>
    /\ eventsText = <<>>
    /\ lastIndex = 0
    /\ recentActivity = <<>>

\* a call of githubEmail with any options
Init ==
    /\ opts \in AllOpts
    /\ pc = "getUsername"
    /\ username = Undefined
    /\ Fresh

Next ==
    \/ GetUsername(UserReplies)
    \/ GetGitHubEmail(EmailReplies("p@x"))
    \/ GetNpmEmail(EmailReplies("n@x"))
    \/ GetRepository(ReposReplies)
    \/ FetchCommits(MalformedCommitsReplies)
    \/ FetchEvents(FeedReplies)
    \/ ScanLoop
    \/ ScanExit

Spec == Init /\ [][Next]_vars

\* getRecentCommitsEmails(username, opts) on every commits array
InitCommits ==
    /\ opts = UsernameOpts("u1", Undefined, "r1")
    /\ pc = "getRepository"
    /\ username = "u1"
    /\ Fresh

NextCommits ==
    \/ GetRepository(ReposReplies)
    \/ FetchCommits(CommitsReplies(MaxCommits))

SpecCommits == InitCommits /\ [][NextCommits]_vars

\* getRecentActivityEmails(username, opts) on every text
InitEvents ==
    /\ opts = UsernameOpts("u1", Undefined, Undefined)
    /\ pc = "getRecentActivityEmails"
    /\ username = "u1"
    /\ Fresh

NextEvents ==
    \/ FetchEvents(EventsReplies(MaxPieces))
    \/ ScanLoop
    \/ ScanExit

SpecEvents == InitEvents /\ [][NextEvents]_vars


\* the loop of getRecentActivityEmails is synchronous code: once entered it
\* keeps running until its condition fails
SpecEventsLive == SpecEvents /\ WF_vars(ScanLoop) /\ WF_vars(ScanExit)

-----------------------------------------------------------------------------
(* Properties *)

Endpoints == {requests[k].endpoint : k \in 1..Len(requests)}

\* C1: an id-based call whose /user/:id request is answered 404 throws the
\* user-not-found error, returns no result, and issues no request after the
\* by-id one.
C1_NotFoundAborts ==
    (opts.kind = "id" /\ userJson.status = 404) =>
        /\ pc = "error"
        /\ error = "Error"
        /\ Len(requests) = 1
        /\ requests[1].endpoint = "user-by-id"

C1_Witness ==
    /\ opts.kind = "id"
    /\ userJson.status = 404
    /\ pc = "error"
    /\ Len(requests) = 1

\* C2: when every request is answered, the call fails only if it is id-based
\* and the id is unknown; in particular a call that carries a username, any
\* string, never fails, whatever mix of 404 and successful responses it gets.
C2_UsernameCallNeverFails ==
    opts.kind = "username" => pc # "error"

\* C3: when the options carry a username, no request goes to /user/:id and
\* every request names exactly the supplied username.
C3_UsernamePassthrough ==
    opts.kind = "username" =>
        /\ username \in {Undefined, opts.username}
        /\ \A k \in 1..Len(requests) :
            /\ requests[k].endpoint # "user-by-id"
            /\ requests[k].user = opts.username

C3_Witness ==
    /\ opts.kind = "username"
    /\ pc = "done"
    /\ Endpoints = {"user", "npm", "repos", "commits", "events"}

\* the identities of a commits array in scan order: commit by commit, the
\* author before the committer
IdentityAt(items, j) ==
    IF j % 2 = 1
    THEN items[(j + 1) \div 2].commit.author
    ELSE items[j \div 2].commit.committer

Named(items) == {j \in 1..(2 * Len(items)) : Truthy(IdentityAt(items, j).name)}

FirstNamed(items, name) ==
    Min({j \in Named(items) : IdentityAt(items, j).name = name})

CommitsAggregated ==
    /\ commitsJson.status = 200
    /\ commitsJson.body.t = "array"
    /\ pc \notin {"fetchCommits", "error"}

\* C4: recentCommits holds exactly one entry for every distinct non-empty
\* name of the payload, with the email of the first identity of that name in
\* scan order, and no other entry.
C4_FirstOccurrenceWins ==
    CommitsAggregated =>
        LET items == commitsJson.body.items IN
        /\ \A j \in Named(items) :
            LET name == IdentityAt(items, j).name
                hits == {k \in 1..Len(recentCommits) : recentCommits[k].name = name}
            IN  /\ Cardinality(hits) = 1
                /\ \A k \in hits :
                    recentCommits[k].email =
                        IdentityAt(items, FirstNamed(items, name)).email
        /\ \A k \in 1..Len(recentCommits) :
            \E j \in Named(items) : recentCommits[k].name = IdentityAt(items, j).name

C4_Witness ==
    /\ CommitsAggregated
    /\ LET items == commitsJson.body.items IN
       \E i, j \in Named(items) :
        /\ i < j
        /\ i = FirstNamed(items, IdentityAt(items, j).name)
        /\ IdentityAt(items, i).email # IdentityAt(items, j).email
        /\ IdentityAt(items, j).email # Undefined
        /\ IdentityAt(items, i).email # Undefined
    /\ Len(recentCommits) = 2

\* v put behind every member that is not older than it
InsertDescending(sorted, v) ==
    LET ahead == {k \in 1..Len(sorted) : sorted[k].date >= v.date}
        n == IF ahead = {} THEN 0 ELSE CHOOSE k \in ahead : \A m \in ahead : m <= k
    IN  SubSeq(sorted, 1, n) \o <<v>> \o SubSeq(sorted, n + 1, Len(sorted))

RECURSIVE StableSortDescending(_)
StableSortDescending(values) ==
    IF values = <<>>
    THEN <<>>
    ELSE InsertDescending(
             StableSortDescending(SubSeq(values, 1, Len(values) - 1)),
             values[Len(values)])

\* C5: recentCommits is the stable descending sort by timestamp of the
\* deduplicated identities: most recent first, equal timestamps in insertion
\* order.
C5_StableDescending ==
    CommitsAggregated =>
        recentCommits = StripDates(StableSortDescending(commitsEmailsMap))

\* the text scanned from offset `from`: the groups of the leftmost matches,
\* each search starting where the match before it ended
RECURSIVE Occurrences(_, _)
Occurrences(text, from) ==
    LET starts == {s \in from..Len(text) : MatchesAt(text, s)} IN
    IF starts = {}
    THEN <<>>
    ELSE LET s == Min(starts)
             q == Min(Closers(text, s))
         IN  <<SubSeq(text, s + Len(Prefix) + 1, q - 1)>> \o Occurrences(text, q)

\* C6: the scan of the events text ends, and recentActivity is then the
\* values of all non-overlapping occurrences of the pattern, in text order,
\* duplicates kept (none when there is no occurrence).
C6_AllOccurrences ==
    /\ [](pc = "done" => recentActivity = Occurrences(eventsText, 0))
    /\ (pc = "scan" ~> pc = "done")

C6_Witness ==
    /\ pc = "done"
    /\ Len(recentActivity) = 2
    /\ recentActivity[1] = <<"x">>
    /\ recentActivity[2] = <<>>

CommitsRequests == {k \in 1..Len(requests) : requests[k].endpoint = "commits"}

\* C7: a supplied repository name is used verbatim with no repositories
\* request; otherwise the commits are requested of the first entry of the
\* repositories response, and a 404, an empty array or a non-array gives no
\* commits request and an empty recentCommits without failing the call.
C7_RepositorySelection ==
    /\ Truthy(opts.repository) =>
        /\ "repos" \notin Endpoints
        /\ \A k \in CommitsRequests : requests[k].repo = opts.repository
    /\ ~Truthy(opts.repository) =>
        /\ \A k \in CommitsRequests :
            /\ reposJson.status = 200
            /\ reposJson.body.t = "array"
            /\ Len(reposJson.body.items) > 0
            /\ requests[k].repo = reposJson.body.items[1].name
        /\ (\/ reposJson.status = 404
            \/ /\ reposJson.status = 200
               /\ (reposJson.body.t # "array" \/ Len(reposJson.body.items) = 0)) =>
            /\ CommitsRequests = {}
            /\ recentCommits = <<>>
            /\ error = None

C7_Witness ==
    /\ ~Truthy(opts.repository)
    /\ pc = "done"
    /\ \E k \in CommitsRequests : requests[k].repo = "r2"
    /\ Len(recentCommits) > 0

\* C8: without a token github is null and no request goes to
\* /users/:username; with a token github is the email of the response when it
\* is present and non-empty, and null on a 404 or a missing or empty email.
C8_ProfileEmail ==
    /\ ~Truthy(opts.token) =>
        /\ github = Null
        /\ "user" \notin Endpoints
    /\ (Truthy(opts.token) /\ profileJson.status # 0) =>
        /\ profileJson.status = 404 => github = Null
        /\ (profileJson.status # 404 /\ Truthy(profileJson.email)) =>
            github = profileJson.email
        /\ (profileJson.status # 404 /\ ~Truthy(profileJson.email)) =>
            github = Null

C8_Witness ==
    /\ ~Truthy(opts.token)
    /\ pc = "done"
    /\ Len(requests) > 0
    /\ github = Null

\* C9: no response body with missing or null members makes the call throw.
C9_MalformedNeverCrashes == error # "TypeError"

\* C10: every entry of recentCommits has a non-empty name and an email that
\* is a string.
C10_EntriesAreStrings ==
    \A k \in 1..Len(recentCommits) :
        /\ Truthy(recentCommits[k].name)
        /\ recentCommits[k].email \notin {Undefined, Null}


====
